---- MODULE Spec2Model ----
(***************************************************************************)
(* Model of the analysis route of yt-analyze (src/app/page.tsx, lines      *)
(* 563-898): request validation, the LRU/TTL cache, the per-channel fetch  *)
(* pipeline, metric derivation, hook classification, n-gram mining,        *)
(* channel aggregation and global ranking.                                 *)
(*                                                                         *)
(* Strings are sequences of one-character strings, so that the code's      *)
(* string operations (toLowerCase, replace, split, join, includes, match)   *)
(* are computed character by character.  Time is counted in whole hours.   *)
(***************************************************************************)
EXTENDS Integers, Sequences, FiniteSets, TLC

VARIABLES
  now,        \* the wall clock, in hours
  apiKey,     \* whether process.env.YT_API_KEY is set
  cache,      \* the module-level LRUCache
  pc,         \* per request slot: idle, or the await POST is suspended at
  loc,        \* per request slot: the locals of POST
  resp,       \* per request slot: the response returned (None before)
  nreq,       \* the number of requests received so far
  lastStored, \* history: per cache key, its latest cache.set
  fnArg,      \* the argument of a function studied on its own
  fnOut       \* the results of applying it

mainVars == <<now, apiKey, cache, pc, loc, resp, nreq, lastStored>>

pureVars == <<fnArg, fnOut>>

vars == <<now, apiKey, cache, pc, loc, resp, nreq, lastStored, fnArg, fnOut>>

\* An optional value (a field the provider may leave out, a regex group that
\* may not take part in the match): None is JavaScript's undefined.
None == <<>>

Some(v) == <<v>>

IsSome(x) == Len(x) = 1

\* x || d
OrElse(x, d) == IF IsSome(x) THEN x[1] ELSE d

Max(a, b) == IF a >= b THEN a ELSE b

Min(a, b) == IF a <= b THEN a ELSE b

-----------------------------------------------------------------------------
(* Characters *)

LowerAscii == {"a","b","c","d","e","f","g","h","i","j","k","l","m",
               "n","o","p","q","r","s","t","u","v","w","x","y","z"}

UpperAscii == {"A","B","C","D","E","F","G","H","I","J","K","L","M",
               "N","O","P","Q","R","S","T","U","V","W","X","Y","Z"}

\* The letter d-with-stroke (U+0111, U+0110): the parser rejects it inside a
\* string literal, so it is written as one two-letter atom.
Dbar == "dd"

DBAR == "DD"

\* The Vietnamese letters of the rule table and of the stopword list.
LowerViet == {"ế","ậ","ồ","ỏ","ỳ","ố","ấ",Dbar,"ộ","ê","ô","ệ","ù",
              "ó","ắ","ầ","ớ","à","ủ","ữ","ã","ì","ừ"}

UpperViet == {"Ế","Ậ",DBAR,"Ô"}

Digits == {"0","1","2","3","4","5","6","7","8","9"}

\* \p{L}, \p{N} and \s restricted to the characters of the model.
IsLetter(c) == c \in LowerAscii \cup UpperAscii \cup LowerViet \cup UpperViet

IsDigit(c) == c \in Digits

IsSpace(c) == c \in {" ", "\t", "\n"}

LowerPairs == {<<"A","a">>,<<"B","b">>,<<"C","c">>,<<"D","d">>,<<"E","e">>,
               <<"F","f">>,<<"G","g">>,<<"H","h">>,<<"I","i">>,<<"J","j">>,
               <<"K","k">>,<<"L","l">>,<<"M","m">>,<<"N","n">>,<<"O","o">>,
               <<"P","p">>,<<"Q","q">>,<<"R","r">>,<<"S","s">>,<<"T","t">>,
               <<"U","u">>,<<"V","v">>,<<"W","w">>,<<"X","x">>,<<"Y","y">>,
               <<"Z","z">>,<<"Ế","ế">>,<<"Ậ","ậ">>,<<DBAR,Dbar>>,<<"Ô","ô">>}

LowerMap == [c \in {p[1] : p \in LowerPairs} |-> (CHOOSE p \in LowerPairs : p[1] = c)[2]]

LowerChar(c) == IF c \in DOMAIN LowerMap THEN LowerMap[c] ELSE c

toLowerCase(s) == [i \in 1..Len(s) |-> LowerChar(s[i])]

-----------------------------------------------------------------------------
(* String helpers: String.prototype.includes, split(" "), join(" "), trim *)

StartsWithAt(s, k, i) ==
  /\ i >= 1
  /\ i + Len(k) - 1 <= Len(s)
  /\ \A j \in 1..Len(k) : s[i + j - 1] = k[j]

includes(s, k) == \E i \in 1..(Len(s) + 1) : StartsWithAt(s, k, i)

\* The positions 1..n, in order.
Indices(n) == [i \in 1..n |-> i]

\* s.split(" "): the pieces between consecutive spaces (and the two ends),
\* empty pieces included.
split(s) ==
  LET cuts == <<0>> \o SelectSeq(Indices(Len(s)), LAMBDA i : s[i] = " ")
                   \o <<Len(s) + 1>>
  IN  [k \in 1..(Len(cuts) - 1) |-> SubSeq(s, cuts[k] + 1, cuts[k + 1] - 1)]

RECURSIVE join(_)
join(ws) ==
  IF Len(ws) = 0 THEN <<>>
  ELSE IF Len(ws) = 1 THEN ws[1]
  ELSE ws[1] \o <<" ">> \o join(Tail(ws))

RECURSIVE TrimLeft(_)
TrimLeft(s) == IF Len(s) > 0 /\ IsSpace(s[1]) THEN TrimLeft(Tail(s)) ELSE s

RECURSIVE TrimRight(_)
TrimRight(s) ==
  IF Len(s) > 0 /\ IsSpace(s[Len(s)])
    THEN TrimRight(SubSeq(s, 1, Len(s) - 1))
    ELSE s

trim(s) == TrimRight(TrimLeft(s))

-----------------------------------------------------------------------------
(* cleanTitle *)

\* .replace(/[^\p{L}\p{N}\s]/gu, " ")
StripPunct(s) ==
  [i \in 1..Len(s) |->
     IF IsLetter(s[i]) \/ IsDigit(s[i]) \/ IsSpace(s[i]) THEN s[i] ELSE " "]

\* .replace(/\s+/g, " "): each run of whitespace becomes one space (its
\* first character is kept, as a space, the others are dropped)
CollapseSpaces(s) ==
  LET kept == SelectSeq(Indices(Len(s)),
                        LAMBDA i : ~(IsSpace(s[i]) /\ i > 1 /\ IsSpace(s[i - 1])))
  IN  [k \in 1..Len(kept) |-> IF IsSpace(s[kept[k]]) THEN " " ELSE s[kept[k]]]

\* t is an optional string: (t || "")
cleanTitle(t) ==
  trim(CollapseSpaces(StripPunct(toLowerCase(OrElse(t, <<>>)))))

-----------------------------------------------------------------------------
(* classifyHook *)

\* (the fourth tag is written with DD and dd for the letter d-with-stroke)
rules ==
  << [k |-> <<"p","h","ế"," ","v","ậ","t">>,             tag |-> "Phế vật → nghịch thiên"],
     [k |-> <<"r","u","ồ","n","g"," ","b","ỏ">>,         tag |-> "Bị ruồng bỏ → quay lại"],
     [k |-> <<"q","u","ỳ"," ","x","u","ố","n","g">>,     tag |-> "Áp chế → quỳ xuống"],
     [k |-> <<"c","h","ấ","n"," ",Dbar,"ộ","n","g">>,    tag |-> "DDột phá → chấn ddộng"],
     [k |-> <<"x","u","y","ê","n"," ","k","h","ô","n","g">>, tag |-> "Xuyên không"],
     [k |-> <<"h","ệ"," ","t","h","ố","n","g">>,         tag |-> "Hệ thống"],
     [k |-> <<"t","r","ù","n","g"," ","s","i","n","h">>, tag |-> "Trùng sinh"] >>

FallbackTag == "Khác"

RECURSIVE LastRule(_, _)
\* The loop without its early return: the last rule that matches wins.
LastRule(t, i) ==
  IF i > Len(rules) THEN FallbackTag
  ELSE IF \E j \in (i + 1)..Len(rules) : includes(t, rules[j].k)
    THEN LastRule(t, i + 1)
  ELSE IF includes(t, rules[i].k) THEN rules[i].tag
  ELSE LastRule(t, i + 1)

RECURSIVE FirstRule(_, _)
\* for (const r of rules) if (t.includes(r.k)) return r.tag; return "Khác"
FirstRule(t, i) ==
  IF i > Len(rules) THEN FallbackTag
  ELSE IF includes(t, rules[i].k) THEN rules[i].tag
  ELSE FirstRule(t, i + 1)

\* title is an optional string
classifyHook(title) == FirstRule(cleanTitle(title), 1)

-----------------------------------------------------------------------------
(* extractNgrams *)

stop ==
  { <<"r","e","v","i","e","w">>, <<"t","ó","m">>, <<"t","ắ","t">>,
    <<"p","h","i","m">>, <<"f","u","l","l">>, <<"t","ậ","p">>, <<"e","p">>,
    <<"p","h","ầ","n">>, <<"p","1">>, <<"p","2">>, <<"p","3">>, <<"p","4">>,
    <<"p","5">>, <<"m","ớ","i">>, <<"h","a","y">>, <<"n","h","ấ","t">>,
    <<"v","à">>, <<"l","à">>, <<"c","ủ","a">>, <<"c","h","o">>,
    <<"m","ộ","t">>, <<"n","h","ữ","n","g">>, <<Dbar,"ã">>, <<"k","h","i">>,
    <<"t","h","ì">>, <<"v","ớ","i">>, <<"t","r","o","n","g">>, <<"t","ừ">>,
    <<Dbar,"ế","n">> }

nMinDefault == 2

nMaxDefault == 4

PatternTop == 50

NonEmpty(x) == Len(x) > 0

\* The token filter without its length test.
KeepTokenAnyLength(x) == x \notin stop

KeepToken(x) == Len(x) >= 2 /\ x \notin stop

\* cleanTitle(raw).split(" ").filter(Boolean).filter(x => x.length >= 2 && !stop.has(x))
TitleTokens(raw) == SelectSeq(SelectSeq(split(cleanTitle(raw)), NonEmpty), KeepToken)

\* gram.split(" ").some((x) => stop.has(x))
HasStop(gram) ==
  LET toks == split(gram)
  IN  \E i \in 1..Len(toks) : toks[i] \in stop

\* for (let i = 0; i + n <= w.length; i++) { ... }: the grams of n tokens of
\* w that reach freq.set, in the order of the loop
GramsOfLength(w, n) ==
  SelectSeq([i \in 1..Max(0, Len(w) - n + 1) |-> join(SubSeq(w, i, i + n - 1))],
            LAMBDA gram : ~HasStop(gram))

RECURSIVE GramsOfTitle(_, _, _)
\* for (let n = nMin; n <= nMax; n++) { ... }, from n on
GramsOfTitle(w, n, nMax) ==
  IF n > nMax THEN <<>>
  ELSE GramsOfLength(w, n) \o GramsOfTitle(w, n + 1, nMax)

RECURSIVE GramsOfTitles(_, _, _)
\* for (const raw of titles) { ... }: every gram that reaches freq.set
GramsOfTitles(titles, nMin, nMax) ==
  IF Len(titles) = 0 THEN <<>>
  ELSE GramsOfTitle(TitleTokens(titles[1]), nMin, nMax)
         \o GramsOfTitles(Tail(titles), nMin, nMax)

\* The Map freq when every gram is set to 1, not counted up.
FreqOfOnce(grams) ==
  LET first == SelectSeq(Indices(Len(grams)),
                         LAMBDA i : \A j \in 1..(i - 1) : grams[j] # grams[i])
  IN  [k \in 1..Len(first) |-> [phrase |-> grams[first[k]], count |-> 1]]

\* The Map freq after freq.set(gram, (freq.get(gram) || 0) + 1) for each of
\* grams in turn: its keys in insertion order (the order of first
\* occurrence), each with the number of its occurrences.
FreqOf(grams) ==
  LET first == SelectSeq(Indices(Len(grams)),
                         LAMBDA i : \A j \in 1..(i - 1) : grams[j] # grams[i])
  IN  [k \in 1..Len(first) |->
         [phrase |-> grams[first[k]],
          count  |-> Cardinality({j \in 1..Len(grams) : grams[j] = grams[first[k]]})]]

\* A descending sort that reverses the elements of equal key (an ascending
\* sort, reversed).
SortDescTiesReversed(s, key) ==
  LET Before(i) == Cardinality({j \in 1..Len(s) :
                                  \/ s[j][key] > s[i][key]
                                  \/ (s[j][key] = s[i][key] /\ j > i)})
  IN  [k \in 1..Len(s) |-> s[CHOOSE i \in 1..Len(s) : Before(i) = k - 1]]

\* [...s].sort((a, b) => b[key] - a[key]): Array.prototype.sort is stable,
\* so element i comes after the elements of greater key and after the
\* earlier elements of equal key.
SortDesc(s, key) ==
  LET Before(i) == Cardinality({j \in 1..Len(s) :
                                  \/ s[j][key] > s[i][key]
                                  \/ (s[j][key] = s[i][key] /\ j < i)})
  IN  [k \in 1..Len(s) |-> s[CHOOSE i \in 1..Len(s) : Before(i) = k - 1]]

\* .slice(0, n)
Take(s, n) == SubSeq(s, 1, IF Len(s) < n THEN Len(s) ELSE n)

\* titles is a sequence of optional strings
extractNgramsN(titles, nMin, nMax) ==
  Take(SortDesc(FreqOf(GramsOfTitles(titles, nMin, nMax)), "count"), PatternTop)

extractNgrams(titles) == extractNgramsN(titles, nMinDefault, nMaxDefault)

-----------------------------------------------------------------------------
(* Numbers *)

\* Math.floor(a / b) in the place of Math.round(a / b)
RoundDown(a, b) == a \div b

\* Math.round(a / b) for a >= 0, b > 0: the nearest integer, halves upwards
Round(a, b) == (2 * a + b) \div (2 * b)

\* The integer part of a / b, cut towards zero (dayjs's absFloor), b > 0
TruncDiv(a, b) == IF a >= 0 THEN a \div b ELSE -((-a) \div b)

RECURSIVE SumOf(_, _)
\* rows.reduce((s, r) => s + r[key], 0)
SumOf(rows, key) ==
  IF Len(rows) = 0 THEN 0 ELSE rows[1][key] + SumOf(Tail(rows), key)

-----------------------------------------------------------------------------
(* iso8601DurationToSeconds *)

RECURSIVE DigitRun(_, _)
\* the length of the run of digits of s that starts at position i
DigitRun(s, i) ==
  IF i <= Len(s) /\ IsDigit(s[i]) THEN 1 + DigitRun(s, i + 1) ELSE 0

DigitVal(c) == CHOOSE n \in 0..9 : <<"0","1","2","3","4","5","6","7","8","9">>[n + 1] = c

RECURSIVE parseInt(_)
\* parseInt(ds, 10) of a string of digits
parseInt(ds) ==
  IF Len(ds) = 0 THEN 0
  ELSE 10 * parseInt(SubSeq(ds, 1, Len(ds) - 1)) + DigitVal(ds[Len(ds)])

\* One optional group (?:(\d+)X)? tried at position i: the position after it
\* and the digits it captured (None when the group takes no part).
DurGroup(s, i, unit) ==
  LET n == DigitRun(s, i)
  IN  IF n >= 1 /\ i + n <= Len(s) /\ s[i + n] = unit
        THEN [next |-> i + n + 1, cap |-> Some(SubSeq(s, i, i + n - 1))]
        ELSE [next |-> i, cap |-> None]

\* d.match(/PT(?:(\d+)H)?(?:(\d+)M)?(?:(\d+)S)?/): the leftmost "PT", then
\* the three optional groups; None when the string holds no "PT".
DurMatch(s) ==
  LET starts == {i \in 1..Len(s) : StartsWithAt(s, <<"P","T">>, i)}
  IN  IF starts = {} THEN None
      ELSE LET i0 == CHOOSE i \in starts : \A j \in starts : i <= j
               gh == DurGroup(s, i0 + 2, "H")
               gm == DurGroup(s, gh.next, "M")
               gs == DurGroup(s, gm.next, "S")
           IN  Some(<<gh.cap, gm.cap, gs.cap>>)

\* d is a string
iso8601DurationToSeconds(d) ==
  LET m == DurMatch(d)
  IN  IF ~IsSome(m) THEN 0
      ELSE LET h  == parseInt(OrElse(m[1][1], <<"0">>))
               mi == parseInt(OrElse(m[1][2], <<"0">>))
               sec == parseInt(OrElse(m[1][3], <<"0">>))
           IN  h * 3600 + mi * 60 + sec

-----------------------------------------------------------------------------
(* parseChannelInput *)

IdChar(c) == c \in LowerAscii \cup UpperAscii \cup Digits \cup {"_", "-"}

IdRun(s, i) ==
  LET stops == {j \in i..Len(s) : ~IdChar(s[j])}
  IN  IF stops = {} THEN Max(0, Len(s) - i + 1)
      ELSE (CHOOSE j \in stops : \A k \in stops : j <= k) - i

\* [^/?]+
HandleRun(s, i) ==
  LET stops == {j \in i..Len(s) : s[j] \in {"/", "?"}}
  IN  IF stops = {} THEN Max(0, Len(s) - i + 1)
      ELSE (CHOOSE j \in stops : \A k \in stops : j <= k) - i

MinIdLen == 20

\* s.match(/(UC[a-zA-Z0-9_-]{20,})/): group 1 of the leftmost match
MatchChannelId(s) ==
  LET starts == {i \in 1..Len(s) :
                   StartsWithAt(s, <<"U","C">>, i) /\ IdRun(s, i + 2) >= MinIdLen}
  IN  IF starts = {} THEN None
      ELSE LET i0 == CHOOSE i \in starts : \A j \in starts : i <= j
           IN  Some(SubSeq(s, i0, i0 + 1 + IdRun(s, i0 + 2)))

HandleUrlPrefix == <<"y","o","u","t","u","b","e",".","c","o","m","/","@">>

\* s.match(/youtube\.com\/@([^/?]+)/i): group 1 of the leftmost match
MatchHandleUrl(s) ==
  LET k == Len(HandleUrlPrefix)
      low == toLowerCase(s)
      starts == {i \in 1..Len(s) :
                   /\ StartsWithAt(low, HandleUrlPrefix, i)
                   /\ HandleRun(s, i + k) >= 1}
  IN  IF starts = {} THEN None
      ELSE LET i0 == CHOOSE i \in starts : \A j \in starts : i <= j
           IN  Some(SubSeq(s, i0 + k, i0 + k - 1 + HandleRun(s, i0 + k)))

\* input is a string (validation has let only strings through)
parseChannelInput(input) ==
  LET s  == trim(input)
      m1 == MatchChannelId(s)
      m2 == MatchHandleUrl(s)
  IN  IF IsSome(m1) THEN [type |-> "id", value |-> m1[1]]
      ELSE IF IsSome(m2) THEN [type |-> "forHandle", value |-> <<"@">> \o m2[1]]
      ELSE [type |-> "forHandle", value |-> s]

-----------------------------------------------------------------------------
(* BodySchema *)

\* A JSON value of a request body: [t |-> "num", v |-> n, whole |-> b] is the
\* number n when whole, and n + 0.5 otherwise; [t |-> "str", v |-> s] is the
\* string s; [t |-> "arr", v |-> <<...>>] is a list.
JNum(n) == [t |-> "num", v |-> n, whole |-> TRUE]

JHalf(n) == [t |-> "num", v |-> n, whole |-> FALSE]

JStr(s) == [t |-> "str", v |-> s]

JArr(xs) == [t |-> "arr", v |-> xs]

InputsMin == 1

InputsMax == 10

DaysMin == 7

DaysMax == 365

DaysDefault == 60

MaxVideosMin == 10

MaxVideosMax == 200

MaxVideosDefault == 80

\* z.array(z.string().min(1)).min(1).max(10)
InputsOk(x) ==
  /\ IsSome(x)
  /\ x[1].t = "arr"
  /\ Len(x[1].v) >= InputsMin
  /\ Len(x[1].v) <= InputsMax
  /\ \A i \in 1..Len(x[1].v) : x[1].v[i].t = "str" /\ Len(x[1].v[i].v) >= 1

\* The integer schema without its .min(lo).
IntFieldOkNoMin(x, lo, hi) ==
  \/ ~IsSome(x)
  \/ /\ x[1].t = "num"
     /\ x[1].whole
     /\ x[1].v <= hi

\* z.number().int().min(lo).max(hi).default(d): an absent field is accepted
IntFieldOk(x, lo, hi) ==
  \/ ~IsSome(x)
  \/ /\ x[1].t = "num"
     /\ x[1].whole
     /\ x[1].v >= lo
     /\ x[1].v <= hi

\* The paths of the issues BodySchema.parse reports, in schema order.
BodyIssues(raw) ==
  (IF InputsOk(raw.inputs) THEN <<>> ELSE <<"inputs">>)
  \o (IF IntFieldOk(raw.days, DaysMin, DaysMax) THEN <<>> ELSE <<"days">>)
  \o (IF IntFieldOk(raw.maxVideos, MaxVideosMin, MaxVideosMax)
        THEN <<>> ELSE <<"maxVideos">>)

\* The value BodySchema.parse returns for a body without issues.
BodyParse(raw) ==
  [inputs    |-> [i \in 1..Len(raw.inputs[1].v) |-> raw.inputs[1].v[i].v],
   days      |-> IF IsSome(raw.days) THEN raw.days[1].v ELSE DaysDefault,
   maxVideos |-> IF IsSome(raw.maxVideos) THEN raw.maxVideos[1].v
                 ELSE MaxVideosDefault]

-----------------------------------------------------------------------------
(* Metrics and the rows of one channel *)

HoursPerDay == 24

\* dayjs().subtract(days, "day"), at hour t
Cutoff(t, days) == t - days * HoursPerDay

\* log10 of a power of ten (the like counts of the model are 10^k - 10)
Log10(x) == CHOOSE k \in 0..6 : 10 ^ k = x

\* computeVelocity({views, likes, ageDays})
computeVelocity(views, likes, ageDays) ==
  Round(views * Log10(likes + 10), Max(1, ageDays))

\* Math.max(1, dayjs().diff(dayjs(publishedAt), "day")) at hour t;
\* dayjs(undefined) is the current time
AgeDays(t, publishedAt) ==
  Max(1, TruncDiv(t - OrElse(publishedAt, t), HoursPerDay))

DefaultDuration == <<"P","T","0","S">>

\* v.contentDetails?.duration || "PT0S": the empty string is falsy too
DurationOrDefault(d) ==
  IF IsSome(d) /\ Len(d[1]) > 0 THEN d[1] ELSE DefaultDuration

\* The record the map callback of POST builds from provider item v of the
\* resolved channel ch, at hour t.
MakeRow(ch, v, t) ==
  LET views   == OrElse(v.viewCount, 0)
      likes   == OrElse(v.likeCount, 0)
      ageDays == AgeDays(t, v.publishedAt)
  IN  [channelId    |-> ch.channelId,
       channelTitle |-> ch.title,
       videoId      |-> v.id,
       title        |-> v.title,
       publishedAt  |-> v.publishedAt,
       durationSec  |-> iso8601DurationToSeconds(DurationOrDefault(v.duration)),
       views        |-> views,
       likes        |-> likes,
       comments     |-> OrElse(v.commentCount, 0),
       ageDays      |-> ageDays,
       viewsPerDay  |-> Round(views, ageDays),
       velocity     |-> computeVelocity(views, likes, ageDays),
       hookTag      |-> classifyHook(v.title),
       url          |-> <<"https://www.youtube.com/watch?v=", v.id>>]

\* r.publishedAt && dayjs(r.publishedAt).isAfter(cutoff)
InWindow(r, cutoff) == IsSome(r.publishedAt) /\ r.publishedAt[1] > cutoff

\* rows.filter(...)
WindowFilter(rows, cutoff) == SelectSeq(rows, LAMBDA r : InWindow(r, cutoff))

TopN == 20

\* The bundle POST stores for a channel: videos are the provider items,
\* t the hour of the computation, cutoff the cutoff of the request.
BundleOf(ch, rows) ==
  [ch            |-> ch,
   rows          |-> rows,
   patterns      |-> extractNgrams([i \in 1..Len(rows) |-> rows[i].title]),
   topByVelocity |-> Take(SortDesc(rows, "velocity"), TopN),
   topByVpd      |-> Take(SortDesc(rows, "viewsPerDay"), TopN)]

MakeBundle(ch, videos, t, cutoff) ==
  BundleOf(ch, WindowFilter([i \in 1..Len(videos) |-> MakeRow(ch, videos[i], t)],
                            cutoff))

-----------------------------------------------------------------------------
(* Channel aggregation and the response *)

HookMixTop == 8

RECURSIVE GroupByChannel(_, _)
\* byChannel: a Map from channelId to its rows, in insertion order
GroupByChannel(groups, rows) ==
  IF Len(rows) = 0 THEN groups
  ELSE LET r == rows[1]
           g == IF \E i \in 1..Len(groups) : groups[i].channelId = r.channelId
                  THEN [i \in 1..Len(groups) |->
                          IF groups[i].channelId = r.channelId
                            THEN [groups[i] EXCEPT !.rows = Append(@, r)]
                            ELSE groups[i]]
                  ELSE Append(groups, [channelId |-> r.channelId, rows |-> <<r>>])
       IN  GroupByChannel(g, Tail(rows))

RECURSIVE HookCounts(_, _)
\* hooks: a Map from hookTag to its count, in insertion order
HookCounts(hooks, rows) ==
  IF Len(rows) = 0 THEN hooks
  ELSE LET tg == rows[1].hookTag
           h  == IF \E i \in 1..Len(hooks) : hooks[i].tag = tg
                   THEN [i \in 1..Len(hooks) |->
                           IF hooks[i].tag = tg
                             THEN [hooks[i] EXCEPT !.count = @ + 1]
                             ELSE hooks[i]]
                   ELSE Append(hooks, [tag |-> tg, count |-> 1])
       IN  HookCounts(h, Tail(rows))

\* The summary of one group of byChannel (a group holds at least one row).
Summarize(g) ==
  LET rows == g.rows
      n    == Max(1, Len(rows))
  IN  [channelId      |-> g.channelId,
       channelTitle   |-> OrElse(rows[1].channelTitle, g.channelId),
       videosInWindow |-> Len(rows),
       avgDurationSec |-> Round(SumOf(rows, "durationSec"), n),
       avgViewsPerDay |-> Round(SumOf(rows, "viewsPerDay"), n),
       avgVelocity    |-> Round(SumOf(rows, "velocity"), n),
       hookMix        |-> Take(SortDesc(HookCounts(<<>>, rows), "count"),
                               HookMixTop)]

ChannelSummaries(allRows) ==
  LET groups == GroupByChannel(<<>>, allRows)
  IN  SortDesc([i \in 1..Len(groups) |-> Summarize(groups[i])], "avgVelocity")

\* [...allRows].sort((a, b) => b[key] - a[key]).slice(0, 20)
GlobalTop(allRows, key) == Take(SortDesc(allRows, key), TopN)

\* The body of the success response.
BuildResponse(body, channels, allRows) ==
  [days                   |-> body.days,
   maxVideos              |-> body.maxVideos,
   channels               |-> channels,
   channelSummary         |-> ChannelSummaries(allRows),
   globalTopByVelocity    |-> GlobalTop(allRows, "velocity"),
   globalTopByViewsPerDay |-> GlobalTop(allRows, "viewsPerDay"),
   globalPatterns         |-> extractNgrams([i \in 1..Len(allRows) |-> allRows[i].title]),
   rows                   |-> allRows]

-----------------------------------------------------------------------------
(* The cache: new LRUCache({max, ttl}) *)

\* The capacity of the cache.  The code sets 500; the model keeps the policy
\* and scales the number down so that capacity pressure is reached.
CacheMax == 2

\* ttl, in hours
TTL == 6

\* The cache is the sequence of its entries [key, value, start], the least
\* recently used first.
CacheIndex(c, key) ==
  IF \E i \in 1..Len(c) : c[i].key = key
    THEN CHOOSE i \in 1..Len(c) : c[i].key = key
    ELSE 0

Without(c, i) == SubSeq(c, 1, i - 1) \o SubSeq(c, i + 1, Len(c))

\* An entry taken to be stale from the ttl on, not only after it.
IsStaleFromTtl(e, t) == t - e.start >= TTL

\* An entry is stale once its age exceeds the ttl.
IsStale(e, t) == t - e.start > TTL

\* cache.get(key) at hour t: the value (None for undefined) and the cache
\* afterwards. A stale entry is deleted; a fresh one becomes the most
\* recently used and keeps its start.
CacheGet(c, key, t) ==
  LET i == CacheIndex(c, key)
  IN  IF i = 0 THEN [value |-> None, cache |-> c]
      ELSE IF IsStale(c[i], t) THEN [value |-> None, cache |-> Without(c, i)]
      ELSE [value |-> Some(c[i].value), cache |-> Append(Without(c, i), c[i])]

\* cache.set(key, value) at hour t: an existing entry is replaced, a new one
\* evicts the least recently used entry when the cache is full.
CacheSet(c, key, value, t) ==
  LET i == CacheIndex(c, key)
      e == [key |-> key, value |-> value, start |-> t]
  IN  IF i > 0 THEN Append(Without(c, i), e)
      ELSE IF Len(c) >= CacheMax THEN Append(Tail(c), e)
      ELSE Append(c, e)

\* JSON.stringify({parsed, days, maxVideos})
CacheKey(parsed, body) ==
  [parsed |-> parsed, days |-> body.days, maxVideos |-> body.maxVideos]

-----------------------------------------------------------------------------
(* The upstream provider: the channels, playlists and videos it holds.     *)
(* Hour 0 is the hour the system starts; publish times lie before it.      *)

IdA == <<"U","C">> \o [i \in 1..22 |-> "a"]

IdB == <<"U","C">> \o [i \in 1..22 |-> "b"]

IdN == <<"U","C">> \o [i \in 1..22 |-> "n"]

HandleA == <<"@","a">>

HandleB == <<"@","b">>

HandleN == <<"@","n">>

HandleUnknown == <<"@","z","z">>

IdC == <<"U","C">> \o [i \in 1..22 |-> "c"]

HandleC == <<"@","c">>

\* The uploads playlist of channel C has LongLen items: more than two pages
\* of PageMax and more than two chunks of ChunkSize.  Item NoIdAt holds no
\* videoId; the video of item GoneAt is no longer served by videos.list.
LongLen == 120

NoIdAt == 3

GoneAt == 57

LongId(i) == "c" \o ToString(i)

LongPlaylist == [i \in 1..LongLen |-> IF i = NoIdAt THEN None ELSE Some(LongId(i))]

\* The videos of channel C: all published before any window of the model.
LongVideos ==
  SelectSeq([i \in 1..LongLen |->
               [id |-> LongId(i), title |-> None, publishedAt |-> Some(-2000),
                duration |-> None, viewCount |-> Some(i), likeCount |-> None,
                commentCount |-> None]],
            LAMBDA v : v.id # LongId(GoneAt))

ProviderChannels ==
  << [id |-> IdA, handle |-> HandleA, title |-> Some(<<"K","ê","n","h"," ","A">>),
      uploads |-> Some("UUa"), subscriberCount |-> Some(1200),
      viewCount |-> Some(90000), videoCount |-> Some(4)],
     [id |-> IdB, handle |-> HandleB, title |-> Some(<<"K","ê","n","h"," ","B">>),
      uploads |-> Some("UUb"), subscriberCount |-> None,
      viewCount |-> Some(300), videoCount |-> Some(1)],
     [id |-> IdN, handle |-> HandleN, title |-> Some(<<"K","ê","n","h"," ","N">>),
      uploads |-> None, subscriberCount |-> Some(3),
      viewCount |-> None, videoCount |-> Some(0)],
     [id |-> IdC, handle |-> HandleC, title |-> Some(<<"K","ê","n","h"," ","C">>),
      uploads |-> Some("UUc"), subscriberCount |-> Some(10),
      viewCount |-> Some(7260), videoCount |-> Some(LongLen)] >>

\* The items of a playlist, newest first: each holds contentDetails.videoId,
\* which the provider may leave out.
ProviderPlaylist(playlistId) ==
  IF playlistId = "UUa" THEN <<Some("a1"), Some("a2"), Some("a3"), Some("a4")>>
  ELSE IF playlistId = "UUb" THEN <<None, Some("b1")>>
  ELSE IF playlistId = "UUc" THEN LongPlaylist
  ELSE <<>>

ProviderVideos ==
  << [id |-> "a1",
      title |-> Some(<<"P","h","ế"," ","v","ậ","t"," ","t","r","ù","n","g"," ","s","i","n","h","!">>),
      publishedAt |-> Some(-100), duration |-> Some(<<"P","T","1","H","2","M","3","S">>),
      viewCount |-> Some(1000), likeCount |-> Some(90), commentCount |-> Some(5)],
     [id |-> "a2",
      title |-> Some(<<"a","b"," ","c","d"," ","t","ậ","p"," ","a","b"," ","c","d">>),
      publishedAt |-> Some(-167), duration |-> Some(<<"P","T","5","M","x">>),
      viewCount |-> None, likeCount |-> None, commentCount |-> None],
     [id |-> "a3",
      title |-> None,
      publishedAt |-> Some(-168), duration |-> None,
      viewCount |-> Some(500), likeCount |-> Some(0), commentCount |-> Some(2)],
     [id |-> "a4",
      title |-> Some(<<"H","ệ"," ","t","h","ố","n","g"," ","a","b"," ","c","d">>),
      publishedAt |-> Some(-50), duration |-> Some(<<"a","b","c">>),
      viewCount |-> Some(1000), likeCount |-> Some(990), commentCount |-> None],
     [id |-> "b1",
      title |-> Some(<<"h","ệ"," ","t","h","ố","n","g">>),
      publishedAt |-> Some(-200), duration |-> Some(<<"P","T","4","5","S">>),
      viewCount |-> Some(300), likeCount |-> Some(990), commentCount |-> Some(1)] >>
    \o LongVideos

\* channels.list with maxResults 1: by id, or by handle (with or without @)
ChannelsList(parsed) ==
  LET Hit(c) == IF parsed.type = "id" THEN c.id = parsed.value
                ELSE \/ c.handle = parsed.value
                     \/ c.handle = <<"@">> \o parsed.value
  IN  Take(SelectSeq(ProviderChannels, Hit), 1)

\* videos.list for the ids of one chunk: the items, in the order asked
VideosList(chunk) ==
  LET Held(id) == \E k \in 1..Len(ProviderVideos) : ProviderVideos[k].id = id
      found == SelectSeq(chunk, Held)
  IN  [i \in 1..Len(found) |->
         ProviderVideos[CHOOSE k \in 1..Len(ProviderVideos) :
                          ProviderVideos[k].id = found[i]]]

-----------------------------------------------------------------------------
(* Request bodies *)

InUrlA == <<"h","t","t","p","s",":","/","/","Y","o","u","T","u","b","e",".","c","o","m","/","@","a","/","v","i","d","e","o","s">>

RawBody(inputs, days, maxVideos) ==
  [inputs |-> inputs, days |-> days, maxVideos |-> maxVideos]

StrList(xs) == Some(JArr([i \in 1..Len(xs) |-> JStr(xs[i])]))

\* The request bodies of the main specification: four within the input
\* contract, two outside it.
MainBodies ==
  << RawBody(StrList(<<HandleA>>), Some(JNum(7)), Some(JNum(10))),
     RawBody(StrList(<<HandleB, InUrlA, <<" ">> \o IdA>>), Some(JNum(7)), Some(JNum(10))),
     RawBody(StrList(<<HandleA, HandleUnknown, HandleB>>), Some(JNum(7)), Some(JNum(10))),
     RawBody(StrList(<<HandleB, HandleN, HandleA>>), Some(JNum(7)), Some(JNum(10))),
     RawBody(StrList(<<HandleA, <<>>, HandleB>>), Some(JNum(7)), Some(JNum(10))),
     RawBody(StrList(<<>>), Some(JNum(400)), Some(JStr(<<"8","0">>))) >>

\* Further bodies, for the study of validation: at the edges of the contract
\* and past them.
EdgeBodies ==
  << RawBody(StrList(<<HandleB, HandleA>>), None, None),
     RawBody(StrList([i \in 1..10 |-> HandleUnknown]), Some(JNum(365)), Some(JNum(200))),
     RawBody(StrList(<<>>), Some(JNum(7)), Some(JNum(10))),
     RawBody(StrList([i \in 1..11 |-> HandleA]), Some(JNum(7)), Some(JNum(10))),
     RawBody(None, Some(JNum(7)), Some(JNum(10))),
     RawBody(Some(JStr(HandleA)), Some(JNum(7)), Some(JNum(10))),
     RawBody(Some(JArr(<<JStr(HandleA), JNum(5)>>)), Some(JNum(7)), Some(JNum(10))),
     RawBody(StrList(<<HandleA>>), Some(JNum(6)), Some(JNum(10))),
     RawBody(StrList(<<HandleA>>), Some(JNum(366)), Some(JNum(10))),
     RawBody(StrList(<<HandleA>>), Some(JHalf(7)), Some(JNum(10))),
     RawBody(StrList(<<HandleA>>), Some(JStr(<<"3","0">>)), Some(JNum(10))),
     RawBody(StrList(<<HandleA>>), Some(JNum(7)), Some(JNum(9))),
     RawBody(StrList(<<HandleA>>), Some(JNum(7)), Some(JNum(201))),
     RawBody(StrList(<<HandleA>>), Some(JNum(7)), Some(JHalf(10))) >>

\* Bodies for the study of the listing and of the detail batches: channel C
\* with fewer videos asked for than a page holds, more than a page, and more
\* than the playlist holds; channel B, whose first item has no videoId.
FetchBodies ==
  << RawBody(StrList(<<HandleC>>), Some(JNum(7)), Some(JNum(10))),
     RawBody(StrList(<<HandleC>>), Some(JNum(7)), Some(JNum(60))),
     RawBody(StrList(<<HandleB, HandleC>>), Some(JNum(7)), Some(JNum(200))) >>

Bodies == MainBodies \o EdgeBodies \o FetchBodies

-----------------------------------------------------------------------------
(* POST *)

\* The number of request slots (requests that can be in progress at once).
NSlots == 2

Slots == 1..NSlots

\* The requests the model receives, and the hours it runs.
MaxReqs == 2

MaxNow == 7

\* The sizes of a playlistItems page and of a videos chunk.
PageMax == 50

ChunkSize == 50

\* A page size the provider may choose to serve although more was asked.
ShortPage == 2

ErrMsg(kind, detail) == [kind |-> kind, detail |-> detail]

\* An error response sent without its status option: Response.json then
\* answers 200.
ErrResponseNoStatus(status, kind, detail) ==
  [status |-> 200, body |-> [error |-> ErrMsg(kind, detail)]]

ErrResponse(status, kind, detail) ==
  [status |-> status, body |-> [error |-> ErrMsg(kind, detail)]]

UndefinedText == <<"u","n","d","e","f","i","n","e","d">>

NoLoc == [bi |-> 0, req |-> 0, startedAt |-> 0, lookups |-> <<>>, fetched |-> <<>>]

\* The locals of POST once the body has been parsed, at hour t (req numbers
\* the request, for the history).  History of the upstream calls of the
\* current input: lastPage is the latest playlistItems exchange while the
\* listing runs, ended how the listing ended, batches the id lists of the
\* videos calls issued so far; fetched logs the inputs that were fetched.
StartLoc(bi, req, body, t) ==
  [bi        |-> bi,
   req       |-> req,
   body      |-> body,
   startedAt |-> t,
   cutoff    |-> Cutoff(t, body.days),
   idx       |-> 1,
   allRows   |-> <<>>,
   channels  |-> <<>>,
   ch        |-> None,
   ids       |-> <<>>,
   pageToken |-> None,
   out       |-> <<>>,
   chunkAt   |-> 0,
   lookups   |-> <<>>,
   lastPage  |-> None,
   ended     |-> None,
   batches   |-> <<>>,
   fetched   |-> <<>>]

CurParsed(l) == parseChannelInput(l.body.inputs[l.idx])

CurKey(l) == CacheKey(CurParsed(l), l.body)

\* History: the latest cache.set of key (None when it was never stored), with
\* its hour, the request that made it, whether that request has since
\* completed successfully, and the bundle it stored.
PrevStore(ls, key) ==
  IF \E e \in ls : e.key = key
    THEN Some(CHOOSE e \in ls : e.key = key)
    ELSE None

\* History: cache.set(key, bundle) by request req at hour t.
Stored(ls, key, bundle, t, req) ==
  {e \in ls : e.key # key}
    \cup {[key |-> key, at |-> t, req |-> req, ok |-> FALSE, value |-> bundle]}

\* History: request req has completed successfully.
MarkOk(ls, req) == {[e EXCEPT !.ok = @ \/ e.req = req] : e \in ls}

\* channels.push(cached.ch)
PushChannel(channels, cached) == Append(channels, cached.ch)

\* The rows pushed from the ranked list of the bundle instead of its rows.
PushRowsRanked(allRows, cached) == allRows \o cached.topByVelocity

\* allRows.push(...cached.rows)
PushRows(allRows, cached) == allRows \o cached.rows

\* The history entry of one cache lookup: g is what cache.get returned from
\* cache c; held tells whether c had an entry for key, rowsAt how many rows
\* the earlier inputs gave, calls counts the upstream calls made for the input.
Lookup(l, key, c, g, t, ls) ==
  [key |-> key, at |-> t, hit |-> IsSome(g.value),
   held |-> CacheIndex(c, key) # 0, rowsAt |-> Len(l.allRows),
   prev |-> PrevStore(ls, key),
   calls |-> IF IsSome(g.value) THEN 0 ELSE 1]

\* The locals after a cache hit on the current input.
AfterHit(l, cached, look) ==
  [l EXCEPT !.channels = PushChannel(@, cached),
            !.allRows  = PushRows(@, cached),
            !.idx      = @ + 1,
            !.lookups  = Append(@, look)]

RECURSIVE RunLoop(_, _, _, _)
RECURSIVE LoopStep(_, _, _, _, _)
\* The for-loop over body.inputs from input l.idx on, at hour t, up to its
\* next await (a cache miss: the channels call is issued) or its end.
RunLoop(l, c, t, ls) ==
  IF l.idx > Len(l.body.inputs) THEN [loc |-> l, cache |-> c, pc |-> "done"]
  ELSE LoopStep(l, CurKey(l), c, t, ls)

\* One iteration: let cached = cache.get(cacheKey); if (!cached) { ... }
LoopStep(l, key, c, t, ls) ==
  LET g == CacheGet(c, key, t)
  IN  IF IsSome(g.value)
        THEN RunLoop(AfterHit(l, g.value[1], Lookup(l, key, c, g, t, ls)), g.cache, t, ls)
        ELSE [loc   |-> [l EXCEPT !.lookups = Append(@, Lookup(l, key, c, g, t, ls))],
              cache |-> g.cache,
              pc    |-> "resolve"]

\* One more upstream call issued for the current input (history).
CountCall(l) == [l EXCEPT !.lookups[Len(l.lookups)].calls = @ + 1]

\* Once POST has returned its locals are gone; the history is kept.
Retired(l) ==
  [bi |-> l.bi, req |-> l.req, startedAt |-> l.startedAt, lookups |-> l.lookups,
   fetched |-> l.fetched]

\* The state once the loop has run on to res: suspended again, or responded.
Settle(r, res, ls) ==
  /\ cache' = res.cache
  /\ lastStored' = IF res.pc = "done" THEN MarkOk(ls, res.loc.req) ELSE ls
  /\ loc' = [loc EXCEPT ![r] = IF res.pc = "done" THEN Retired(res.loc) ELSE res.loc]
  /\ pc' = [pc EXCEPT ![r] = res.pc]
  /\ resp' = [resp EXCEPT ![r] =
                IF res.pc = "done"
                  THEN Some([status |-> 200,
                             body |-> BuildResponse(res.loc.body,
                                                    res.loc.channels,
                                                    res.loc.allRows)])
                  ELSE None]

Proceed(r, l, c, t, ls) == Settle(r, RunLoop(l, c, t, ls), ls)

\* A catch that also empties the cache
FailClearing(r, kind, detail) ==
  /\ pc' = [pc EXCEPT ![r] = "done"]
  /\ resp' = [resp EXCEPT ![r] = Some(ErrResponse(400, kind, detail))]
  /\ loc' = [loc EXCEPT ![r] = Retired(@)]
  /\ cache' = <<>>
  /\ UNCHANGED lastStored

\* catch (e): the request ends with {error: e.message}, status 400
Fail(r, kind, detail) ==
  /\ pc' = [pc EXCEPT ![r] = "done"]
  /\ resp' = [resp EXCEPT ![r] = Some(ErrResponse(400, kind, detail))]
  /\ loc' = [loc EXCEPT ![r] = Retired(@)]
  /\ UNCHANGED <<cache, lastStored>>

\* A request arrives with body Bodies[bi]: up to the first await of the loop.
Start(r, bi) ==
  /\ pc[r] \in {"idle", "done"}
  /\ nreq < MaxReqs
  /\ nreq' = nreq + 1
  /\ UNCHANGED <<now, apiKey, pureVars>>
  /\ IF ~apiKey
       THEN /\ pc' = [pc EXCEPT ![r] = "done"]
            /\ resp' = [resp EXCEPT ![r] = Some(ErrResponse(500, "config", <<>>))]
            /\ loc' = [loc EXCEPT ![r] = [NoLoc EXCEPT !.bi = bi, !.req = nreq + 1,
                                                        !.startedAt = now]]
            /\ UNCHANGED <<cache, lastStored>>
       ELSE IF BodyIssues(Bodies[bi]) # <<>>
         THEN /\ pc' = [pc EXCEPT ![r] = "done"]
              /\ resp' = [resp EXCEPT ![r] =
                            Some(ErrResponse(400, "validation", BodyIssues(Bodies[bi])))]
              /\ loc' = [loc EXCEPT ![r] = [NoLoc EXCEPT !.bi = bi, !.req = nreq + 1,
                                                          !.startedAt = now]]
              /\ UNCHANGED <<cache, lastStored>>
         ELSE Proceed(r, StartLoc(bi, nreq + 1, BodyParse(Bodies[bi]), now),
                      cache, now, lastStored)

\* The first playlistItems call of listPlaylistVideos is issued.
\* (maxVideos is at least 10, so the while condition holds at entry.)
ResolveReturn(r) ==
  /\ pc[r] = "resolve"
  /\ UNCHANGED <<now, apiKey, nreq, pureVars>>
  /\ LET l     == loc[r]
         items == ChannelsList(CurParsed(l))
     IN  IF Len(items) = 0
           THEN Fail(r, "notFound", CurParsed(l).value)
           ELSE LET ch == [channelId         |-> items[1].id,
                           title             |-> items[1].title,
                           uploadsPlaylistId |-> items[1].uploads,
                           subscribers       |-> OrElse(items[1].subscriberCount, 0),
                           totalViews        |-> OrElse(items[1].viewCount, 0),
                           videoCount        |-> OrElse(items[1].videoCount, 0)]
                IN  IF ~IsSome(ch.uploadsPlaylistId)
                      THEN Fail(r, "noUploads", OrElse(ch.title, UndefinedText))
                      ELSE /\ loc' = [loc EXCEPT ![r] =
                                        CountCall([l EXCEPT !.ch = Some(ch),
                                                            !.ids = <<>>,
                                                            !.pageToken = None,
                                                            !.out = <<>>,
                                                            !.chunkAt = 0,
                                                            !.lastPage = None,
                                                            !.ended = None,
                                                            !.batches = <<>>])]
                           /\ pc' = [pc EXCEPT ![r] = "list"]
                           /\ UNCHANGED <<cache, resp, lastStored>>

\* The input is done: rows are computed, the bundle is stored, and the loop
\* runs on.
StoreAndGo(r, l, key, bundle) ==
  Proceed(r,
          [l EXCEPT !.channels = PushChannel(@, bundle),
                    !.allRows  = PushRows(@, bundle),
                    !.idx      = @ + 1],
          CacheSet(cache, key, bundle, now),
          now,
          Stored(lastStored, key, bundle, now, l.req))

\* History: what listPlaylistVideos and getVideosDetails did for the input.
FetchRecord(l, videos) ==
  [ids |-> l.ids, maxVideos |-> l.body.maxVideos, ended |-> l.ended[1],
   batches |-> l.batches, out |-> videos]

FinishInput(r, l, videos) ==
  StoreAndGo(r, [l EXCEPT !.fetched = Append(@, FetchRecord(l, videos))],
             CurKey(l), MakeBundle(l.ch[1], videos, now, l.cutoff))

\* A full page asked for whatever has been collected
PageAskedFull(l) == PageMax

\* maxResults of the next playlistItems call
PageAsked(l) == Min(PageMax, l.body.maxVideos - Len(l.ids))

\* The page of n items the provider serves from the page token on.
PageItems(l, n) ==
  SubSeq(ProviderPlaylist(l.ch[1].uploadsPlaylistId[1]),
         OrElse(l.pageToken, 0) + 1, OrElse(l.pageToken, 0) + n)

PageNextToken(l, n) ==
  IF OrElse(l.pageToken, 0) + n < Len(ProviderPlaylist(l.ch[1].uploadsPlaylistId[1]))
    THEN Some(OrElse(l.pageToken, 0) + n)
    ELSE None

\* for (const it of items) { if (vid) ids.push(vid) }; pageToken = res.nextPageToken
AfterPage(l, items, token) ==
  [l EXCEPT !.ids = @ \o [i \in 1..Len(SelectSeq(items, IsSome)) |->
                            SelectSeq(items, IsSome)[i][1]],
            !.pageToken = token,
            !.lastPage = Some([had |-> Len(l.ids), asked |-> PageAsked(l),
                               token |-> l.pageToken, got |-> Len(items),
                               next |-> token])]

\* History: listPlaylistVideos returns after a page of nitems items.
EndListing(l, nitems) ==
  [l EXCEPT !.ended = Some([next |-> l.pageToken, empty |-> nitems = 0]),
            !.lastPage = None]

\* videoIds.slice(i, videoIds.length): all the remaining ids in one chunk
ChunkRest(l) == SubSeq(l.ids, l.chunkAt + 1, Len(l.ids))

\* videoIds.slice(i, i + 50)
Chunk(l) == SubSeq(l.ids, l.chunkAt + 1, Min(l.chunkAt + ChunkSize, Len(l.ids)))

\* The videos call for the chunk at l.chunkAt is issued.
IssueChunk(l) == [CountCall(l) EXCEPT !.batches = Append(@, Chunk(l))]

\* After a page: the next page is asked for, or the listing is over and
\* getVideosDetails starts (a first videos call, or none for no ids).
ListStep(r, l1, nitems) ==
  IF IsSome(l1.pageToken) /\ nitems > 0 /\ Len(l1.ids) < l1.body.maxVideos
    THEN /\ loc' = [loc EXCEPT ![r] = CountCall(l1)]
         /\ UNCHANGED <<pc, cache, resp, lastStored>>
    ELSE IF Len(l1.ids) = 0
      THEN FinishInput(r, EndListing(l1, nitems), <<>>)
      ELSE /\ loc' = [loc EXCEPT ![r] = IssueChunk(EndListing(l1, nitems))]
           /\ pc' = [pc EXCEPT ![r] = "details"]
           /\ UNCHANGED <<cache, resp, lastStored>>

\* A playlistItems page of n items comes back.
ListReturn(r, n) ==
  /\ pc[r] = "list"
  /\ UNCHANGED <<now, apiKey, nreq, pureVars>>
  /\ LET full == Min(PageAsked(loc[r]),
                     Len(ProviderPlaylist(loc[r].ch[1].uploadsPlaylistId[1]))
                       - OrElse(loc[r].pageToken, 0))
     IN  n \in {full, Min(ShortPage, full)}
  /\ ListStep(r, AfterPage(loc[r], PageItems(loc[r], n), PageNextToken(loc[r], n)), n)

\* out.push(...(res.items || [])); i += 50
AfterChunk(l) ==
  [l EXCEPT !.out = @ \o VideosList(Chunk(l)), !.chunkAt = @ + ChunkSize]

\* After a chunk: the next chunk is asked for, or the input is done.
DetailsStep(r, l1) ==
  IF l1.chunkAt < Len(l1.ids)
    THEN /\ loc' = [loc EXCEPT ![r] = IssueChunk(l1)]
         /\ UNCHANGED <<pc, cache, resp, lastStored>>
    ELSE FinishInput(r, l1, l1.out)

\* The videos response for the chunk at l.chunkAt comes back.
DetailsReturn(r) ==
  /\ pc[r] = "details"
  /\ UNCHANGED <<now, apiKey, nreq, pureVars>>
  /\ DetailsStep(r, AfterChunk(loc[r]))

\* ytGET throws (a transport or provider failure) at the pending call.
UpstreamFail(r) ==
  /\ pc[r] \in {"resolve", "list", "details"}
  /\ UNCHANGED <<now, apiKey, nreq, pureVars>>
  /\ Fail(r, "upstream", <<>>)

\* The hours at which the clock is looked at: the first two, and those from
\* the ttl on.
Hours == {h \in 0..MaxNow : h <= 1 \/ h >= TTL}

\* Time passes, to the next of these hours.  Between the channels response
\* of an input and its last videos response POST reads no clock, so time
\* that passes there is taken to pass while the channels call is pending.
Tick ==
  /\ \E h \in Hours : h > now
  /\ \A r \in Slots : pc[r] \notin {"list", "details"}
  /\ now' = CHOOSE h \in Hours : h > now /\ \A g \in Hours : g > now => h <= g
  /\ UNCHANGED <<apiKey, cache, pc, loc, resp, nreq, lastStored, pureVars>>

MainInit ==
  /\ now = 0
  /\ cache = <<>>
  /\ pc = [r \in Slots |-> "idle"]
  /\ loc = [r \in Slots |-> NoLoc]
  /\ resp = [r \in Slots |-> None]
  /\ nreq = 0
  /\ lastStored = {}

Init ==
  /\ MainInit
  /\ apiKey \in BOOLEAN
  /\ fnArg = None
  /\ fnOut = <<>>

\* Requests are received one after another: slot 1 serves them all.
StartSeq(bi) == (\A q \in Slots : pc[q] \in {"idle", "done"}) /\ Start(1, bi)

Next ==
  \/ \E bi \in 1..Len(MainBodies) : StartSeq(bi)
  \/ ResolveReturn(1)
  \/ \E n \in 0..PageMax : ListReturn(1, n)
  \/ DetailsReturn(1)
  \/ UpstreamFail(1)
  \/ Tick

Spec == Init /\ [][Next]_vars

\* The specification for the study of validation: requests with any of the
\* bodies, at hour 0.
NextInput ==
  \/ \E bi \in 1..(Len(MainBodies) + Len(EdgeBodies)) : StartSeq(bi)
  \/ ResolveReturn(1)
  \/ \E n \in 0..PageMax : ListReturn(1, n)
  \/ DetailsReturn(1)
  \/ UpstreamFail(1)

SpecInput == Init /\ [][NextInput]_vars

\* The specification for the study of the listing and of the detail batches:
\* requests with the bodies of FetchBodies, at hour 0; the provider may also
\* answer a page request with an empty page that still carries a token.
FetchIndexes ==
  (Len(MainBodies) + Len(EdgeBodies) + 1)..Len(Bodies)

\* A playlistItems page with no items and a nextPageToken comes back.
ListReturnEmpty(r) ==
  /\ pc[r] = "list"
  /\ UNCHANGED <<now, apiKey, nreq, pureVars>>
  /\ OrElse(loc[r].pageToken, 0) < Len(ProviderPlaylist(loc[r].ch[1].uploadsPlaylistId[1]))
  /\ ListStep(r, AfterPage(loc[r], <<>>, Some(OrElse(loc[r].pageToken, 0))), 0)

NextFetch ==
  \/ \E bi \in FetchIndexes : StartSeq(bi)
  \/ ResolveReturn(1)
  \/ \E n \in 0..PageMax : ListReturn(1, n)
  \/ ListReturnEmpty(1)
  \/ DetailsReturn(1)
  \/ UpstreamFail(1)

InitFetch == MainInit /\ apiKey = TRUE /\ fnArg = None /\ fnOut = <<>>

SpecFetch == InitFetch /\ [][NextFetch]_vars

\* Requests in progress at the same time: every slot serves requests, and
\* the handlers interleave at their awaits (each action runs from one await
\* to the next, as the event loop runs a continuation).  The bodies are the
\* first two of MainBodies, which share the key of @a.
ConcBodies == {1, 2}

InitConc == MainInit /\ apiKey = TRUE /\ fnArg = None /\ fnOut = <<>>

NextConc ==
  \E r \in Slots :
    \/ \E bi \in ConcBodies : Start(r, bi)
    \/ ResolveReturn(r)
    \/ \E n \in 0..PageMax : ListReturn(r, n)
    \/ DetailsReturn(r)
    \/ UpstreamFail(r)

SpecConc == InitConc /\ [][NextConc]_vars

-----------------------------------------------------------------------------
(* The pure functions, each applied to inputs drawn from a bounded set *)

\* How often a function is applied to its input.
MaxCalls == 2

\* The main variables stay as they start.
PureInit == MainInit /\ apiKey = TRUE /\ fnOut = <<>>

\* The flattening of a sequence of strings.
Flatten(ss) ==
  LET F[i \in 0..Len(ss)] == IF i = 0 THEN <<>> ELSE F[i - 1] \o ss[i]
  IN  F[Len(ss)]

\* The sequences of at most n elements of 1..m.
Tuples(n, m) == UNION {[1..k -> 1..m] : k \in 0..n}

\* classifyHook: the titles are made of at most MaxPieces of these pieces.
HookPieces ==
  << <<"p","h","ế"," ","v","ậ","t">>,
     <<"r","u","ồ","n","g"," ","b","ỏ">>,
     <<"q","u","ỳ"," ","x","u","ố","n","g">>,
     <<"c","h","ấ","n"," ",Dbar,"ộ","n","g">>,
     <<"x","u","y","ê","n"," ","k","h","ô","n","g">>,
     <<"h","ệ"," ","t","h","ố","n","g">>,
     <<"t","r","ù","n","g"," ","s","i","n","h">>,
     <<"P","H","Ế",","," ","V","Ậ","T","!">>,
     <<"C","h","ấ","n">>,
     <<DBAR,"ộ","n","g">>,
     <<" ">>,
     <<"-">> >>

MaxPieces == 3

HookTitles ==
  {None} \cup {Some(Flatten([i \in 1..Len(f) |-> HookPieces[f[i]]])) :
                 f \in Tuples(MaxPieces, Len(HookPieces))}

InitHook == PureInit /\ fnArg \in HookTitles

\* classifyHook is applied once more to the title, and its result recorded.
ApplyClassifyHook ==
  /\ Len(fnOut) < MaxCalls
  /\ fnOut' = Append(fnOut, classifyHook(fnArg))
  /\ UNCHANGED <<fnArg, mainVars>>

NextHook == ApplyClassifyHook

SpecHook == InitHook /\ [][NextHook]_vars

\* extractNgrams: a title of at most MaxWords of these words, each followed
\* by a space, and then one of a few second titles.
NgramWords ==
  << <<"a","b">>, <<"C","d","!">>, <<"x">>, <<"t","ậ","p">> >>

MaxWords == 5

NgramSeconds ==
  << None,
     Some(<<"A","B"," "," ","c","d">>),
     Some(<<"a","b",",","c","d"," ","t","ậ","p"," ","x"," ","a","b"," ","c","d">>) >>

NgramLists ==
  {<<Some(Flatten([i \in 1..Len(f) |-> NgramWords[f[i]] \o <<" ">>])),
     NgramSeconds[k]>> :
     f \in Tuples(MaxWords, Len(NgramWords)), k \in 1..Len(NgramSeconds)}

InitNgrams == PureInit /\ fnArg \in NgramLists

\* extractNgrams is applied once more to the titles, and its result recorded.
ApplyExtractNgrams ==
  /\ Len(fnOut) < MaxCalls
  /\ fnOut' = Append(fnOut, extractNgrams(fnArg))
  /\ UNCHANGED <<fnArg, mainVars>>

NextNgrams == ApplyExtractNgrams

SpecNgrams == InitNgrams /\ [][NextNgrams]_vars

\* The global top lists: n rows whose keys repeat with period m.
MaxRows == 22

MaxMul == 3

MaxMod == 4

RankRows(n, a, m) ==
  [i \in 1..n |-> [videoId     |-> i,
                   velocity    |-> (a * i) % m,
                   viewsPerDay |-> (i * i + a) % m]]

RankInputs ==
  {RankRows(n, a, m) : n \in 0..MaxRows, a \in 0..MaxMul, m \in 1..MaxMod}

InitRank == PureInit /\ fnArg \in RankInputs

\* The two global top lists are computed once more from the rows.
ApplyGlobalTop ==
  /\ Len(fnOut) < MaxCalls
  /\ fnOut' = Append(fnOut, [globalTopByVelocity    |-> GlobalTop(fnArg, "velocity"),
                             globalTopByViewsPerDay |-> GlobalTop(fnArg, "viewsPerDay")])
  /\ UNCHANGED <<fnArg, mainVars>>

NextRank == ApplyGlobalTop

SpecRank == InitRank /\ [][NextRank]_vars

\* The rows of POST: lists of at most MaxRowVideos provider items of one
\* channel, published RowHours hours from the request (before it, at it,
\* after it), with these view counts; the request asks for DaysDefault days.
RowHours == {-1441, -1440, -1439, -170, -168, -49, -48, -47, -24, -23, 0, 1, 30}

RowViews == {None, Some(7), Some(1000)}

MaxRowVideos == 2

RowVideo(h, views) ==
  [id |-> "a1", title |-> None, publishedAt |-> Some(h), duration |-> None,
   viewCount |-> views, likeCount |-> Some(90), commentCount |-> None]

RowVideos == {RowVideo(h, w) : h \in RowHours, w \in RowViews}
               \cup {[RowVideo(0, Some(7)) EXCEPT !.publishedAt = None]}

\* The channel of the items, as resolveChannel returns it
RowChannel ==
  [channelId         |-> ProviderChannels[1].id,
   title             |-> ProviderChannels[1].title,
   uploadsPlaylistId |-> ProviderChannels[1].uploads,
   subscribers       |-> OrElse(ProviderChannels[1].subscriberCount, 0),
   totalViews        |-> OrElse(ProviderChannels[1].viewCount, 0),
   videoCount        |-> OrElse(ProviderChannels[1].videoCount, 0)]

RowLists == UNION {[1..n -> RowVideos] : n \in 0..MaxRowVideos}

InitRow == PureInit /\ fnArg \in RowLists

\* The rows of one channel are built once more from the items.
ApplyMakeBundle ==
  /\ Len(fnOut) < MaxCalls
  /\ fnOut' = Append(fnOut, MakeBundle(RowChannel, fnArg, now,
                          Cutoff(now, DaysDefault)).rows)
  /\ UNCHANGED <<fnArg, mainVars>>

NextRow == ApplyMakeBundle

SpecRow == InitRow /\ [][NextRow]_vars

\* parseChannelInput: strings of at most MaxParsePieces of these pieces.
ParsePieces ==
  << <<" ">>, <<"@">>, <<"a">>, <<"/">>, <<"?">>, <<"U","C">>, IdA,
     <<"Y","o","u","T","u","b","e",".","c","o","m","/","@">> >>

MaxParsePieces == 3

ParseStrings ==
  {Flatten([i \in 1..Len(f) |-> ParsePieces[f[i]]]) :
     f \in Tuples(MaxParsePieces, Len(ParsePieces))}

InitParse == PureInit /\ fnArg \in ParseStrings

\* parseChannelInput is applied once more to the string.
ApplyParseChannelInput ==
  /\ Len(fnOut) < MaxCalls
  /\ fnOut' = Append(fnOut, parseChannelInput(fnArg))
  /\ UNCHANGED <<fnArg, mainVars>>

NextParse == ApplyParseChannelInput

SpecParse == InitParse /\ [][NextParse]_vars

\* iso8601DurationToSeconds: strings of at most MaxDurPieces of these pieces.
DurPieces ==
  << <<"P","T">>, <<"1","H">>, <<"2","M">>, <<"3","S">>, <<"1","2">>,
     <<"H">>, <<"x">>, <<"P","1","D">> >>

MaxDurPieces == 4

DurStrings ==
  {Flatten([i \in 1..Len(f) |-> DurPieces[f[i]]]) :
     f \in Tuples(MaxDurPieces, Len(DurPieces))}

InitDuration == PureInit /\ fnArg \in DurStrings

\* iso8601DurationToSeconds is applied once more to the string.
ApplyDuration ==
  /\ Len(fnOut) < MaxCalls
  /\ fnOut' = Append(fnOut, iso8601DurationToSeconds(fnArg))
  /\ UNCHANGED <<fnArg, mainVars>>

NextDuration == ApplyDuration

SpecDuration == InitDuration /\ [][NextDuration]_vars

-----------------------------------------------------------------------------
(* The cache and its time to live *)

\* The cache lookups request r has made so far, in order.
LookupsOf(r) == loc[r].lookups

\* Lookup e of request r finds the latest store of its key made by an earlier
\* request that completed successfully.
FromEarlierSuccess(r, e) ==
  IsSome(e.prev) /\ e.prev[1].ok /\ e.prev[1].req < loc[r].req

\* C1 as stated: when a request completed successfully has stored a key, a
\* later request that starts less than 6 hours after the store makes no
\* upstream call for that key, and one that starts more than 6 hours after it
\* calls the provider again.
C1_NoCallWithinTtlOfStart ==
  \A r \in Slots : \A i \in 1..Len(LookupsOf(r)) :
    FromEarlierSuccess(r, LookupsOf(r)[i]) =>
      /\ loc[r].startedAt - LookupsOf(r)[i].prev[1].at < TTL
           => LookupsOf(r)[i].calls = 0
      /\ loc[r].startedAt - LookupsOf(r)[i].prev[1].at > TTL
           => LookupsOf(r)[i].calls >= 1

\* C1 amended: a lookup makes no upstream call for its key exactly when the
\* cache still holds an entry for the key (it was not evicted for capacity)
\* that was stored no more than 6 hours before the lookup; a lookup more than
\* 6 hours after the store calls the provider again.
C1_NoCallWhileHeldAndFresh ==
  \A r \in Slots : \A i \in 1..Len(LookupsOf(r)) :
    LET e == LookupsOf(r)[i]
    IN  /\ e.hit <=> (e.held /\ IsSome(e.prev) /\ e.at - e.prev[1].at <= TTL)
        /\ e.hit => e.calls = 0
        /\ ~e.hit => e.calls >= 1
        /\ (IsSome(e.prev) /\ e.at - e.prev[1].at > TTL) => e.calls >= 1

\* A request has answered 200 after a hit on an entry that an earlier,
\* successful request stored less than 6 hours before it started.
C1_Witness ==
  \E r \in Slots :
    /\ pc[r] = "done" /\ IsSome(resp[r]) /\ resp[r][1].status = 200
    /\ \E i \in 1..Len(LookupsOf(r)) :
         /\ FromEarlierSuccess(r, LookupsOf(r)[i])
         /\ LookupsOf(r)[i].hit
         /\ loc[r].startedAt - LookupsOf(r)[i].prev[1].at < TTL

-----------------------------------------------------------------------------
(* The responses *)

\* Request r has been answered with status 200.
Succeeded(r) == pc[r] = "done" /\ IsSome(resp[r]) /\ resp[r][1].status = 200

\* Request r has been answered with an error.
Failed(r) == pc[r] = "done" /\ IsSome(resp[r]) /\ resp[r][1].status # 200

\* The parsed body of request r (its body is within the contract).
BodyOf(r) == BodyParse(Bodies[loc[r].bi])

\* C2 as stated: in every successful response, fetched or served from the
\* cache, every record of rows and of the global top lists was published
\* strictly after the time of this request minus days.
C2_RowsWithinRequestWindow ==
  \A r \in Slots :
    Succeeded(r) =>
      LET b   == resp[r][1].body
          cut == Cutoff(loc[r].startedAt, b.days)
          In(rows) == \A i \in 1..Len(rows) :
                        IsSome(rows[i].publishedAt) /\ rows[i].publishedAt[1] > cut
      IN  In(b.rows) /\ In(b.globalTopByVelocity) /\ In(b.globalTopByViewsPerDay)

-----------------------------------------------------------------------------
(* Resolution failures *)

\* The channel input resolves to no provider item, or to a channel without
\* uploads playlist.
Unresolvable(input) ==
  LET items == ChannelsList(parseChannelInput(input))
  IN  Len(items) = 0 \/ ~IsSome(items[1].uploads)

\* The inputs of request r have an unresolvable one; k is the first.
FirstUnresolvable(r, k) ==
  /\ k \in 1..Len(BodyOf(r).inputs)
  /\ Unresolvable(BodyOf(r).inputs[k])
  /\ \A i \in 1..(k - 1) : ~Unresolvable(BodyOf(r).inputs[i])

\* Request r went through validation: the key is set and the body is valid.
Admitted(r) == loc[r].bi # 0 /\ apiKey /\ BodyIssues(Bodies[loc[r].bi]) = <<>>

\* The error message of request r names the text.
Names(r, text) == includes(resp[r][1].body.error.detail, text)

\* What C3 and its amendment share: a request whose k-th input is the first
\* unresolvable one ends with a non-2xx response whose body is only {error},
\* so without rows, channels or summaries of inputs 1..k-1, and makes no
\* lookup and no upstream call for inputs k+1..n; unless an upstream call
\* failed before, the k-th input was looked up and cost the channels call only.
AbortsAt(r, k) ==
  /\ Failed(r)
  /\ resp[r][1].status \notin 200..299
  /\ DOMAIN resp[r][1].body = {"error"}
  /\ Len(LookupsOf(r)) <= k
  /\ resp[r][1].body.error.kind \in {"notFound", "noUploads", "upstream"}
  /\ resp[r][1].body.error.kind # "upstream" =>
       /\ Len(LookupsOf(r)) = k
       /\ LookupsOf(r)[k].calls = 1

\* C3 as stated: ... and the message names the unresolved input.
C3_AbortNamesInput ==
  \A r \in Slots : \A k \in 1..InputsMax :
    (pc[r] = "done" /\ Admitted(r) /\ FirstUnresolvable(r, k)) =>
      /\ AbortsAt(r, k)
      /\ resp[r][1].body.error.kind # "upstream" =>
           Names(r, parseChannelInput(BodyOf(r).inputs[k]).value)

\* C3 amended: ... and the message names the parsed input when it resolved to
\* no provider item, and the title of the resolved channel when that channel
\* has no uploads playlist.
C3_AbortNamesInputOrChannel ==
  \A r \in Slots : \A k \in 1..InputsMax :
    (pc[r] = "done" /\ Admitted(r) /\ FirstUnresolvable(r, k)) =>
      LET p     == parseChannelInput(BodyOf(r).inputs[k])
          items == ChannelsList(p)
          kind  == resp[r][1].body.error.kind
      IN  /\ AbortsAt(r, k)
          /\ kind = "notFound" <=> (kind # "upstream" /\ Len(items) = 0)
          /\ kind = "notFound" => resp[r][1].body.error.detail = p.value
          /\ kind = "noUploads" =>
               resp[r][1].body.error.detail = OrElse(items[1].title, UndefinedText)

\* A request of three inputs was aborted at its second input, a channel
\* without uploads playlist, after the first input was processed.
C3_Witness ==
  \E r \in Slots :
    /\ pc[r] = "done" /\ Admitted(r) /\ FirstUnresolvable(r, 2)
    /\ Len(BodyOf(r).inputs) = 3
    /\ resp[r][1].body.error.kind = "noUploads"

-----------------------------------------------------------------------------
(* Validation *)

\* The input contract, read off a raw body: inputs is a list of 1 to 10
\* non-empty strings, days (when given) an integer in 7..365, maxVideos (when
\* given) an integer in 10..200.
WithinContract(raw) ==
  /\ IsSome(raw.inputs) /\ raw.inputs[1].t = "arr"
  /\ Len(raw.inputs[1].v) \in 1..10
  /\ \A i \in 1..Len(raw.inputs[1].v) :
       raw.inputs[1].v[i].t = "str" /\ raw.inputs[1].v[i].v # <<>>
  /\ IsSome(raw.days) =>
       raw.days[1].t = "num" /\ raw.days[1].whole /\ raw.days[1].v \in 7..365
  /\ IsSome(raw.maxVideos) =>
       /\ raw.maxVideos[1].t = "num" /\ raw.maxVideos[1].whole
       /\ raw.maxVideos[1].v \in 10..200

\* C4: a request whose body violates the input contract is answered, in the
\* step that receives it, with an {error} response of non-2xx status; it makes
\* no cache lookup and no upstream call, and the cache is left as it was.
C4_RejectedBeforeAnyCall ==
  [][\A r \in Slots :
       (nreq' = nreq + 1 /\ loc'[r].req = nreq' /\ ~WithinContract(Bodies[loc'[r].bi]))
         => /\ pc'[r] = "done"
            /\ IsSome(resp'[r])
            /\ resp'[r][1].status \notin 200..299
            /\ DOMAIN resp'[r][1].body = {"error"}
            /\ loc'[r].lookups = <<>>
            /\ cache' = cache
            /\ lastStored' = lastStored]_vars

\* A request with a body outside the contract was rejected by validation
\* while the cache held an entry.
C4_Witness ==
  \E r \in Slots :
    /\ pc[r] = "done" /\ loc[r].bi # 0 /\ ~WithinContract(Bodies[loc[r].bi])
    /\ IsSome(resp[r]) /\ resp[r][1].body.error.kind = "validation"
    /\ resp[r][1].body.error.detail = <<"days">>
    /\ cache # <<>>

-----------------------------------------------------------------------------
(* Stored bundles *)

\* The first row after those input i of request r contributed.
RowsEnd(r, i) ==
  IF i < Len(LookupsOf(r)) THEN LookupsOf(r)[i + 1].rowsAt
  ELSE Len(resp[r][1].body.rows)

\* C5: every cache entry holds the bundle that was stored under its key,
\* unchanged; and in a successful response a cache hit contributes exactly the
\* stored channel record and the stored rows, in the stored order.
C5_HitServesStoredBundle ==
  /\ \A i \in 1..Len(cache) :
       LET st == PrevStore(lastStored, cache[i].key)
       IN  IsSome(st) /\ st[1].at = cache[i].start /\ st[1].value = cache[i].value
  /\ \A r \in Slots :
       Succeeded(r) =>
         \A i \in 1..Len(LookupsOf(r)) :
           LookupsOf(r)[i].hit =>
             LET e == LookupsOf(r)[i]
                 b == e.prev[1].value
             IN  /\ resp[r][1].body.channels[i] = b.ch
                 /\ RowsEnd(r, i) = e.rowsAt + Len(b.rows)
                 /\ SubSeq(resp[r][1].body.rows, e.rowsAt + 1, RowsEnd(r, i)) = b.rows

\* A successful response has a cache hit on a bundle of several rows that an
\* earlier request stored.
C5_Witness ==
  \E r \in Slots :
    /\ Succeeded(r)
    /\ \E i \in 1..Len(LookupsOf(r)) :
         /\ LookupsOf(r)[i].hit
         /\ LookupsOf(r)[i].prev[1].req < loc[r].req
         /\ Len(LookupsOf(r)[i].prev[1].value.rows) >= 2

-----------------------------------------------------------------------------
(* Data anomalies *)

\* The duration string is of the form PT, then optional hours, minutes and
\* seconds, and nothing else.
WellFormedDuration(s) ==
  /\ StartsWithAt(s, <<"P","T">>, 1)
  /\ DurGroup(s, DurGroup(s, DurGroup(s, 3, "H").next, "M").next, "S").next
       = Len(s) + 1

\* The provider video item of a record.
ItemOf(row) == CHOOSE v \in {ProviderVideos[i] : i \in 1..Len(ProviderVideos)} :
                 v.id = row.videoId

\* C6 as stated: a provider item with a malformed or absent duration, or with
\* absent counters, never makes the request fail (the request fails only for
\* its key, its body, a resolution or the transport), and its record has
\* durationSec = 0 for the bad duration and 0 for each missing counter.
C6_AnomaliesBecomeZero ==
  \A r \in Slots :
    /\ Failed(r) =>
         resp[r][1].body.error.kind
           \in {"config", "validation", "notFound", "noUploads", "upstream"}
    /\ Succeeded(r) =>
         \A i \in 1..Len(resp[r][1].body.rows) :
           LET row == resp[r][1].body.rows[i]
               v   == ItemOf(row)
           IN  /\ (~IsSome(v.duration) \/ ~WellFormedDuration(v.duration[1]))
                    => row.durationSec = 0
               /\ ~IsSome(v.viewCount) => row.views = 0
               /\ ~IsSome(v.likeCount) => row.likes = 0
               /\ ~IsSome(v.commentCount) => row.comments = 0

-----------------------------------------------------------------------------
(* Channel aggregation *)

\* C7 as stated: a channel of a successful response whose window-filtered
\* video set is empty has a ChannelSummary with videosInWindow = 0 and
\* averages 0.
C7_EmptyChannelSummarised ==
  \A r \in Slots :
    Succeeded(r) =>
      LET b == resp[r][1].body
      IN  \A i \in 1..Len(b.channels) :
            (\A j \in 1..Len(b.rows) : b.rows[j].channelId # b.channels[i].channelId)
              => \E k \in 1..Len(b.channelSummary) :
                   /\ b.channelSummary[k].channelId = b.channels[i].channelId
                   /\ b.channelSummary[k].videosInWindow = 0
                   /\ b.channelSummary[k].avgDurationSec = 0
                   /\ b.channelSummary[k].avgViewsPerDay = 0
                   /\ b.channelSummary[k].avgVelocity = 0

-----------------------------------------------------------------------------
(* The global top lists *)

\* list is a ranking of rows by key as C8 describes it (the rows carry their
\* position in rows as videoId).
RankedBy(rows, list, key) ==
  /\ Len(list) = Min(20, Len(rows))
  /\ \A j \in 1..Len(list) :
       list[j].videoId \in 1..Len(rows) /\ rows[list[j].videoId] = list[j]
  /\ \A j, k \in 1..Len(list) :
       j < k => /\ list[j][key] >= list[k][key]
                /\ list[j].videoId # list[k].videoId
                /\ list[j][key] = list[k][key] => list[j].videoId < list[k].videoId
  /\ \A i \in 1..Len(rows) :
       (\A j \in 1..Len(list) : list[j].videoId # i)
         => \A j \in 1..Len(list) : rows[i][key] <= list[j][key]

\* C8: each global top list holds min(20, |rows|) records of rows, in
\* non-increasing order of its key; every record left out has a key no
\* greater than the smallest of the list; records of equal key keep their
\* order from rows.
C8_GlobalTopRanked ==
  \A c \in 1..Len(fnOut) :
    /\ RankedBy(fnArg, fnOut[c].globalTopByVelocity, "velocity")
    /\ RankedBy(fnArg, fnOut[c].globalTopByViewsPerDay, "viewsPerDay")

\* The lists were computed from more than 20 rows of several velocities, one
\* of the rows left out having the smallest velocity of the list.
C8_Witness ==
  /\ Len(fnOut) >= 1
  /\ Len(fnArg) > 20
  /\ \E i, j \in 1..Len(fnArg) : fnArg[i].velocity # fnArg[j].velocity
  /\ \E i \in 1..Len(fnArg) :
       /\ \A j \in 1..20 : fnOut[1].globalTopByVelocity[j].videoId # i
       /\ fnArg[i].velocity = fnOut[1].globalTopByVelocity[20].velocity

-----------------------------------------------------------------------------
(* Hook classification *)

\* The keywords and tags of the rule table, in the order C9 gives.
HookTable ==
  << <<<<"p","h","ế"," ","v","ậ","t">>,                 "Phế vật → nghịch thiên">>,
     <<<<"r","u","ồ","n","g"," ","b","ỏ">>,             "Bị ruồng bỏ → quay lại">>,
     <<<<"q","u","ỳ"," ","x","u","ố","n","g">>,         "Áp chế → quỳ xuống">>,
     <<<<"c","h","ấ","n"," ",Dbar,"ộ","n","g">>,        "DDột phá → chấn ddộng">>,
     <<<<"x","u","y","ê","n"," ","k","h","ô","n","g">>, "Xuyên không">>,
     <<<<"h","ệ"," ","t","h","ố","n","g">>,             "Hệ thống">>,
     <<<<"t","r","ù","n","g"," ","s","i","n","h">>,     "Trùng sinh">> >>

\* The rules whose keyword is a substring of the cleaned title.
Matching(title) ==
  {i \in 1..Len(HookTable) : includes(cleanTitle(title), HookTable[i][1])}

\* C9: classifyHook returns the tag of the first rule of the table whose
\* keyword is a substring of the cleaned title, and "Khác" if and only if
\* there is none.
C9_FirstRuleWins ==
  fnOut # <<>> =>
    LET m == Matching(fnArg)
    IN  \A c \in 1..Len(fnOut) :
          /\ m # {} => \E i \in m : (\A j \in m : i <= j) /\ fnOut[c] = HookTable[i][2]
          /\ fnOut[c] = "Khác" <=> m = {}

\* classifyHook was applied to a title that holds the keywords of two rules,
\* the later rule's keyword first.
C9_Witness ==
  /\ Len(fnOut) >= 1
  /\ \E i, j \in Matching(fnArg) :
       /\ i < j
       /\ StartsWithAt(cleanTitle(fnArg), HookTable[j][1], 1)
       /\ fnOut[1] = HookTable[i][2]

-----------------------------------------------------------------------------
(* Pattern mining *)

-----------------------------------------------------------------------------
(* Phrases and the titles they come from *)

\* The token sequence of the cleaned title: what is between its spaces.
CleanTokens(title) ==
  SelectSeq(split(cleanTitle(title)), LAMBDA x : x # <<>>)

\* The tokens of the cleaned title that remain once the stopwords and the
\* tokens shorter than 2 are dropped.
RemainingTokens(title) ==
  SelectSeq(CleanTokens(title), LAMBDA x : Len(x) >= 2 /\ x \notin stop)

\* The token sequences of the cleaned titles.
CleanTokenSeqs(titles) ==
  LET F[t \in 0..Len(titles)] ==
        IF t = 0 THEN <<>> ELSE Append(F[t - 1], CleanTokens(titles[t]))
  IN  F[Len(titles)]

\* The remaining token sequences of the titles.
RemainingTokenSeqs(titles) ==
  LET F[t \in 0..Len(titles)] ==
        IF t = 0 THEN <<>> ELSE Append(F[t - 1], RemainingTokens(titles[t]))
  IN  F[Len(titles)]

\* The number of positions of toks at which run starts.
OccurrencesIn(toks, run) ==
  Cardinality({i \in 1..(Len(toks) - Len(run) + 1) :
                 SubSeq(toks, i, i + Len(run) - 1) = run})

\* The same, summed over a sequence of token sequences.
Occurrences(seqs, run) ==
  LET F[t \in 0..Len(seqs)] ==
        IF t = 0 THEN 0 ELSE F[t - 1] + OccurrencesIn(seqs[t], run)
  IN  F[Len(seqs)]

\* Every entry of out is a run of 2 to 4 adjacent tokens of one of seqs, its
\* count the number of positions at which the run occurs in seqs.
CountsRunsOf(seqs, out) ==
  \A i \in 1..Len(out) :
    LET run == split(out[i].phrase)
        n   == Occurrences(seqs, run)
    IN  Len(run) \in 2..4 /\ n >= 1 /\ out[i].count = n

\* C11 as stated: every phrase is a run of 2 to 4 adjacent tokens of the
\* cleaned form of a title, counted once per position at which it occurs.
C11_RunsOfCleanedTitle ==
  fnOut # <<>> =>
    LET seqs == CleanTokenSeqs(fnArg)
    IN  \A c \in 1..Len(fnOut) : CountsRunsOf(seqs, fnOut[c])

\* C11 amended: every phrase is a run of 2 to 4 adjacent tokens of what
\* remains of the cleaned form of a title once stopwords and tokens shorter
\* than 2 are dropped, counted once per position at which it occurs there.
C11_RunsOfRemainingTokens ==
  fnOut # <<>> =>
    LET seqs == RemainingTokenSeqs(fnArg)
    IN  \A c \in 1..Len(fnOut) : CountsRunsOf(seqs, fnOut[c])

\* extractNgrams returned a phrase, counted twice, whose tokens are apart in
\* the cleaned titles: a dropped token lies between them.
C11_Witness ==
  /\ Len(fnOut) >= 1
  /\ \E i \in 1..Len(fnOut[1]) :
       /\ fnOut[1][i].count = 2
       /\ Occurrences(CleanTokenSeqs(fnArg), split(fnOut[1][i].phrase)) = 0

-----------------------------------------------------------------------------
(* Durations *)

\* The number a segment of digits and a unit letter stands for, read at
\* position i of s (0 for a segment that is not there).
SegmentValue(s, i, unit) ==
  IF IsSome(DurGroup(s, i, unit).cap) THEN parseInt(DurGroup(s, i, unit).cap[1])
  ELSE 0

\* H*3600 + M*60 + S of a string of the form PT[nH][nM][nS].
SecondsOf(s) ==
  LET gh == DurGroup(s, 3, "H")
      gm == DurGroup(s, gh.next, "M")
  IN  SegmentValue(s, 3, "H") * 3600 + SegmentValue(s, gh.next, "M") * 60
        + SegmentValue(s, gm.next, "S")

\* C12 as stated: iso8601DurationToSeconds returns H*3600 + M*60 + S for
\* every string of the form PT[nH][nM][nS], and 0 for every other string.
C12_SecondsOrZero ==
  \A c \in 1..Len(fnOut) :
    fnOut[c] = IF WellFormedDuration(fnArg) THEN SecondsOf(fnArg) ELSE 0

-----------------------------------------------------------------------------
(* Age and views per day *)

\* n is the integer nearest to a / b (b > 0), the upper one of two
NearestTo(n, a, b) == 2 * n * b - b <= 2 * a /\ 2 * a < 2 * n * b + b

\* C13: every record of the response has an integer ageDays of at least 1,
\* also when the video is less than a day old or dated after the request,
\* and its viewsPerDay is views / ageDays rounded to the nearest integer,
\* which is not negative.
C13_AgeAtLeastOneDay ==
  \A c \in 1..Len(fnOut) : \A i \in 1..Len(fnOut[c]) :
    LET r == fnOut[c][i]
    IN  /\ r.ageDays \in Nat /\ r.ageDays >= 1
        /\ r.publishedAt[1] > now - HoursPerDay => r.ageDays = 1
        /\ r.viewsPerDay \in Nat
        /\ NearestTo(r.viewsPerDay, r.views, r.ageDays)

\* A response with a record dated after the request and a record whose
\* views are not a multiple of its age.
C13_Witness ==
  /\ Len(fnOut) >= 1
  /\ \E i \in 1..Len(fnOut[1]) :
       /\ fnOut[1][i].publishedAt[1] > now
       /\ fnOut[1][i].ageDays = 1 /\ fnOut[1][i].viewsPerDay = 7
  /\ \E i \in 1..Len(fnOut[1]) :
       /\ fnOut[1][i].ageDays = 2 /\ fnOut[1][i].views = 7
       /\ fnOut[1][i].viewsPerDay = 4

-----------------------------------------------------------------------------
(* Channel references *)

\* C14 as stated: for every input validation accepts (a string of at least
\* one character) parseChannelInput yields a reference with exactly one kind
\* tag, "id" or "forHandle", and a value that is not empty.
C14_ReferenceHasValue ==
  \A c \in 1..Len(fnOut) :
    Len(fnArg) >= 1 =>
      fnOut[c].type \in {"id", "forHandle"} /\ fnOut[c].value # <<>>

-----------------------------------------------------------------------------
(* Requests in progress at the same time *)

\* Slot r is between the cache miss of its current input and the cache.set
\* (or the failure) that ends the upstream calls for it.
Fetching(r) == pc[r] \in {"resolve", "list", "details"}

\* C15 as stated: at any moment at most one fetch is in progress for a key;
\* a request that arrives while the key is being fetched starts no second
\* round of upstream calls for it.
C15_OneFetchPerKey ==
  \A r, q \in Slots :
    r # q /\ Fetching(r) /\ Fetching(q) => CurKey(loc[r]) # CurKey(loc[q])

-----------------------------------------------------------------------------
(* The listing of a playlist *)

\* The inputs fetched so far by the request of slot r, in order.
FetchedOf(r) == loc[r].fetched

\* The listing that gave ids for a request of maxVideos ended for one of the
\* three reasons: enough ids, no further page, an empty page.
EndedRightly(ids, maxVideos, ended) ==
  /\ Len(ids) <= maxVideos
  /\ Len(ids) = maxVideos \/ ended.next = None \/ ended.empty

\* C16: while a page request is pending fewer than maxVideos ids have been
\* collected; the first request carries no token, every later one the token
\* the previous page returned, and that page had items; a request asks for
\* min(50, maxVideos - ids collected so far) and gets no more than that; the
\* id list never has more than maxVideos entries, and a listing that is over
\* collected maxVideos ids, or saw a page without token or without items.
C16_PagesInSequence ==
  \A r \in Slots :
    /\ pc[r] = "list" =>
         LET l == loc[r]
         IN  /\ Len(l.ids) < l.body.maxVideos
             /\ l.lastPage = None => l.pageToken = None /\ l.ids = <<>>
             /\ l.lastPage # None =>
                  LET p == l.lastPage[1]
                  IN  /\ l.pageToken = p.next /\ p.next # None /\ p.got > 0
                      /\ p.asked = Min(50, l.body.maxVideos - p.had)
                      /\ p.got <= p.asked
                      /\ Len(l.ids) <= p.had + p.got
    /\ pc[r] = "details" =>
         EndedRightly(loc[r].ids, loc[r].body.maxVideos, loc[r].ended[1])
    /\ \A k \in 1..Len(FetchedOf(r)) :
         EndedRightly(FetchedOf(r)[k].ids, FetchedOf(r)[k].maxVideos,
                      FetchedOf(r)[k].ended)

\* A request for 60 videos has listed exactly 60 ids, over more than one
\* page, and stopped although the last page carried a token.
C16_Witness ==
  \E r \in Slots : \E k \in 1..Len(FetchedOf(r)) :
    /\ FetchedOf(r)[k].maxVideos = 60 /\ Len(FetchedOf(r)[k].ids) = 60
    /\ FetchedOf(r)[k].ended.next # None /\ ~FetchedOf(r)[k].ended.empty

-----------------------------------------------------------------------------
(* The detail batches *)

\* The provider's items for the batches, concatenated in batch order.
ItemsOfBatches(batches) ==
  LET F[k \in 0..Len(batches)] ==
        IF k = 0 THEN <<>> ELSE F[k - 1] \o VideosList(batches[k])
  IN  F[Len(batches)]

\* batches are consecutive pieces of ids, from its start, of 1 to 50 ids each
ConsecutiveBatches(batches, ids) ==
  /\ \A k \in 1..Len(batches) : Len(batches[k]) \in 1..50
  /\ Flatten(batches) = SubSeq(ids, 1, Len(Flatten(batches)))

\* C17: the videos calls issued for an id list ask for consecutive batches
\* of at most 50 ids, one call pending at a time; once getVideosDetails has
\* returned the batches together are the id list, every id in exactly one
\* of them, and the result is the provider's items in batch order; for an
\* empty id list no call is issued and the result is empty.
C17_BatchesInOrder ==
  \A r \in Slots :
    /\ pc[r] = "details" =>
         /\ ConsecutiveBatches(loc[r].batches, loc[r].ids)
         /\ Len(loc[r].batches) >= 1
         /\ loc[r].out = ItemsOfBatches(SubSeq(loc[r].batches, 1,
                                                Len(loc[r].batches) - 1))
    /\ \A k \in 1..Len(FetchedOf(r)) :
         LET e == FetchedOf(r)[k]
         IN  /\ ConsecutiveBatches(e.batches, e.ids)
             /\ Flatten(e.batches) = e.ids
             /\ e.out = ItemsOfBatches(e.batches)
             /\ e.ids = <<>> => e.batches = <<>> /\ e.out = <<>>

\* An id list of more than 100 ids was fetched in three batches, and an
\* empty id list in none, in one request.
C17_Witness ==
  \E r \in Slots :
    /\ \E k \in 1..Len(FetchedOf(r)) :
         /\ Len(FetchedOf(r)[k].batches) = 3
         /\ Len(FetchedOf(r)[k].ids) > 100
         /\ Len(FetchedOf(r)[k].out) = Len(FetchedOf(r)[k].ids) - 1
    /\ \E k \in 1..Len(FetchedOf(r)) : FetchedOf(r)[k].ids = <<>>

-----------------------------------------------------------------------------
(* Failures and the cache *)

\* The cache.set calls made so far (the history without its success marks).
StoresOf(ls) ==
  {[key |-> e.key, at |-> e.at, req |-> e.req, value |-> e.value] : e \in ls}

\* The step ends the request of slot r with an error while it was fetching.
FailsFetching(r) ==
  Fetching(r) /\ pc'[r] = "done" /\ IsSome(resp'[r]) /\ resp'[r][1].status # 200

\* The step stores s for the input slot r is fetching: the channel was
\* resolved and has an uploads playlist, the listing is over, every batch
\* of its ids has been answered.
StoresFetched(r, s) ==
  /\ Fetching(r) /\ pc[r] # "resolve"
  /\ s.req = loc[r].req /\ s.key = CurKey(loc[r])
  /\ IsSome(loc[r].ch) /\ ChannelsList(CurParsed(loc[r])) # <<>>
  /\ s.value.ch = loc[r].ch[1] /\ IsSome(s.value.ch.uploadsPlaylistId)
  /\ Len(loc'[r].fetched) = Len(loc[r].fetched) + 1
  /\ LET f == loc'[r].fetched[Len(loc'[r].fetched)]
     IN  /\ EndedRightly(f.ids, f.maxVideos, f.ended)
         /\ Flatten(f.batches) = f.ids
         /\ f.out = ItemsOfBatches(f.batches)
         /\ s.value = MakeBundle(loc[r].ch[1], f.out, now, loc[r].cutoff)

\* C18: every cache.set is made for an input whose channel was resolved and
\* has an uploads playlist, whose listing is complete and whose detail
\* batches were all answered; a step that fails a request stores nothing,
\* leaves the failing key out of the cache, and leaves in the cache what
\* the request stored for its earlier inputs.
C18_StoredOnlyAfterSuccess ==
  [][/\ \A s \in StoresOf(lastStored') \ StoresOf(lastStored) :
          \E r \in Slots : StoresFetched(r, s)
     /\ \A r \in Slots :
          FailsFetching(r) =>
            /\ cache' = cache
            /\ StoresOf(lastStored') = StoresOf(lastStored)
            /\ CacheIndex(cache', CurKey(loc[r])) = 0
            /\ \A e \in lastStored :
                 e.req = loc[r].req => CacheIndex(cache', e.key) # 0]_vars

\* A later request is served from the cache what a failed request stored
\* for an earlier input, and calls the provider for a key never stored.
C18_Witness ==
  \E r \in Slots :
    /\ \E i \in 1..Len(LookupsOf(r)) :
         /\ LookupsOf(r)[i].hit
         /\ LookupsOf(r)[i].prev # None
         /\ LookupsOf(r)[i].prev[1].req < loc[r].req
         /\ ~LookupsOf(r)[i].prev[1].ok
    /\ \E j \in 1..Len(LookupsOf(r)) :
         /\ ~LookupsOf(r)[j].hit /\ LookupsOf(r)[j].prev = None
         /\ LookupsOf(r)[j].calls >= 1
    /\ Failed(r)

====
